---- MODULE Spec2Model ----
(***************************************************************************)
(* Tlist: a type-tagged singly linked list (src/src/Tlist.c).              *)
(*                                                                         *)
(* The heap is modelled explicitly.  A node cell (struct Node) has an      *)
(* address; malloc returns any cell that is not live, so a freed cell can  *)
(* be handed out again and a stale pointer can alias a new node.  The      *)
(* storage malloc'ed for node->_val of the owning kinds is never compared  *)
(* or kept anywhere but in its node, so it has no address here: nval holds *)
(* what _val denotes and vlive counts the value allocations the list has   *)
(* made and neither released nor handed to the caller.                     *)
(*                                                                         *)
(* Values are small integers.  A double is an integer, a float is an even  *)
(* integer, and the cast (float) rounds a double to the nearest float.     *)
(*                                                                         *)
(* Undefined behaviour (a NULL dereference, a write through a pointer to a *)
(* freed node) is a choice between the process faulting and the execution  *)
(* going on with the flat-memory outcome; status records which, and the    *)
(* model follows the program no further after either.                      *)
(*                                                                         *)
(* Spec is the list under any sequence of its operations.  The other       *)
(* specifications add a caller to it: SpecIter one that iterates           *)
(* (src/src/Titerator.c), SpecCalls one whose list pointer may be NULL,    *)
(* SpecFifo one that uses the list as a queue, SpecDup one that duplicates *)
(* the list and uses the copy, SpecScenario one that runs a fixed sequence *)
(* of calls on a new list, SpecTrim one that takes out the last element.   *)
(***************************************************************************)
EXTENDS Integers, Sequences, FiniteSets, TLC

MaxNodes == 3
MaxVal == 2

NULL == 0
Nodes == 1..MaxNodes
Values == 1..MaxVal
Indexes == (0 - 1)..(MaxNodes + 1)
Type == {"T", "INT", "STRING", "FLOAT", "DOUBLE"}

VARIABLES type, head, tail, length, live, nxt, nval, vlive, status, op,
          it, dup, run

vars == <<type, head, tail, length, live, nxt, nval, vlive, status, op,
          it, dup, run>>
mem == <<head, tail, length, live, nxt, nval, vlive>>

(* What no operation of the list itself touches: the kind, the caller's    *)
(* iterator, the caller's second list and the record of the caller's run.  *)
rest == <<type, it, dup, run>>

(* The caller holds no iterator, no second list, and follows no scenario.  *)
NoIter == [ref |-> NULL, current |-> NULL, index |-> 0]
NoList == [ref |-> NULL, head |-> NULL, tail |-> NULL, length |-> 0]
NoRun == [phase |-> "idle", pushed |-> << >>, popped |-> << >>]

(* The list structure and the heap as one value, threaded through the      *)
(* helpers below.                                                          *)
Cur == [head |-> head, tail |-> tail, length |-> length, live |-> live,
        nxt |-> nxt, nval |-> nval, vlive |-> vlive, status |-> status]

Set(S) ==
    /\ head' = S.head
    /\ tail' = S.tail
    /\ length' = S.length
    /\ live' = S.live
    /\ nxt' = S.nxt
    /\ nval' = S.nval
    /\ vlive' = S.vlive
    /\ status' = S.status

(* The last call: its name, what it returned (the value the returned       *)
(* pointer denotes, NULL for none) and whether it printed an error.        *)
Call(name, index, ret, err) ==
    [name |-> name, ret |-> ret, err |-> err]

(* (float)d : rounds to the nearest representable float.                   *)
FloatCast(d) == 2 * ((d + 1) \div 2)

(* What a node of a list of kind t holds after v was passed in.            *)
Stored(t, v) == IF t = "FLOAT" THEN FloatCast(v) ELSE v

(* The node reached from h after k links, NULL when the chain ends first.  *)
RECURSIVE NodeAt(_, _, _)
NodeAt(nx, h, k) ==
    IF h = NULL THEN NULL
    ELSE IF k = 0 THEN h
    ELSE NodeAt(nx, nx[h], k - 1)

(* The nodes reachable from h, in order.                                   *)
RECURSIVE Chain(_, _, _)
Chain(nx, h, fuel) ==
    IF h = NULL \/ fuel = 0 THEN << >>
    ELSE <<h>> \o Chain(nx, nx[h], fuel - 1)

Range(s) == {s[i] : i \in 1..Len(s)}

(* The value a node's _val denotes.                                        *)
Content(S, n) == S.nval[n]

NodesOf(S) == Chain(S.nxt, S.head, MaxNodes + 1)
ElemsOf(S) == [i \in 1..Len(NodesOf(S)) |-> Content(S, NodesOf(S)[i])]
Elems == ElemsOf(Cur)

len == length

Owning == type # "T"

free(S, n) ==
    [S EXCEPT !.live[n] = FALSE, !.nxt[n] = NULL, !.nval[n] = NULL]

(* free(node->_val) whatever the kind.                                     *)
freeVal_anyKind(S, n) ==
    [S EXCEPT !.vlive = @ - 1, !.nval[n] = NULL]

(* free(node->_val) of an owning kind.                                     *)
freeVal(S, n) ==
    IF Owning THEN [S EXCEPT !.vlive = @ - 1, !.nval[n] = NULL] ELSE S

(* The value leaves the list with the caller, who is to release it.        *)
giveVal(S, n) ==
    IF Owning THEN [S EXCEPT !.vlive = @ - 1] ELSE S

newNode(S, n, val) ==
    [S EXCEPT !.live[n] = TRUE, !.nxt[n] = NULL,
              !.nval[n] = Stored(type, val),
              !.vlive = IF Owning THEN @ + 1 ELSE @]

(* The cells malloc can return for a node: any cell that is not live.      *)
FreeNodes(S) == {n \in Nodes : ~S.live[n]}

Fault(S) == [S EXCEPT !.status = "fault"]

Init ==
    /\ type \in Type
    /\ head = NULL
    /\ tail = NULL
    /\ length = 0
    /\ live = [n \in Nodes |-> FALSE]
    /\ nxt = [n \in Nodes |-> NULL]
    /\ nval = [n \in Nodes |-> NULL]
    /\ vlive = 0
    /\ status = "ok"
    /\ op = Call("newList", 0, NULL, FALSE)
    /\ it = NoIter
    /\ dup = NoList
    /\ run = NoRun

Out(S, ret, err) == [s |-> S, ret |-> ret, err |-> err]

(* newNode() without the test for a NULL string source.                    *)
newNodeExits_noTest(val) == FALSE

(* newNode() halts the program on a NULL source for a STRING node.         *)
newNodeExits(val) == type = "STRING" /\ val = NULL

Exit(S) == [S EXCEPT !.status = "exit"]

(* underPush that links the node before the head.                         *)
underPush_prepends(S, node) ==
    {[S EXCEPT !.nxt[node] = S.head, !.head = node,
               !.tail = IF S.head = NULL THEN node ELSE @,
               !.length = @ + 1]}

(* underPush: the outcomes of linking node after the tail.  this->_tail    *)
(* is dereferenced whenever the head is not NULL.                          *)
underPush(S, node) ==
    IF S.head = NULL
    THEN {[S EXCEPT !.head = node, !.tail = node, !.length = @ + 1]}
    ELSE IF S.tail = NULL
    THEN {Fault(S),
          [S EXCEPT !.tail = node, !.length = @ + 1, !.status = "ub"]}
    ELSE IF ~S.live[S.tail]
    THEN {Fault(S),
          [S EXCEPT !.nxt[S.tail] = node, !.tail = node, !.length = @ + 1,
                    !.status = "ub"]}
    ELSE {[S EXCEPT !.nxt[S.tail] = node, !.tail = node, !.length = @ + 1]}

push(S, v) ==
    IF newNodeExits(v)
    THEN {Out(Exit(S), NULL, TRUE)}
    ELSE {Out(R, NULL, FALSE) :
            R \in UNION {underPush(newNode(S, n, v), n) : n \in FreeNodes(S)}}

(* pop with the length decremented before the emptiness test.              *)
pop_decrementsWhenEmpty(S) ==
    IF S.head = NULL
    THEN Out([S EXCEPT !.length = @ - 1], NULL, FALSE)
    ELSE LET current == S.head
             val == Content(S, current)
             S1 == [S EXCEPT !.head = S.nxt[current]]
             S2 == free(giveVal(S1, current), current)
             S3 == [S2 EXCEPT !.length = @ - 1,
                              !.tail = IF S2.head = NULL THEN NULL ELSE @]
         IN  Out(S3, val, FALSE)

pop(S) ==
    IF S.head = NULL
    THEN Out(S, NULL, FALSE)
    ELSE LET current == S.head
             val == Content(S, current)
             S1 == [S EXCEPT !.head = S.nxt[current]]
             S2 == free(giveVal(S1, current), current)
             S3 == [S2 EXCEPT !.length = @ - 1,
                              !.tail = IF S2.head = NULL THEN NULL ELSE @]
         IN  Out(S3, val, FALSE)

get(S, index) ==
    IF index < 0
    THEN Out(S, NULL, TRUE)
    ELSE LET current == NodeAt(S.nxt, S.head, index)
         IN  IF current # NULL
             THEN Out(S, Content(S, current), FALSE)
             ELSE Out(S, NULL, TRUE)

set(S, index, v) ==
    IF index < 0
    THEN Out(S, NULL, TRUE)
    ELSE LET current == NodeAt(S.nxt, S.head, index)
         IN  IF current = NULL
             THEN Out(S, NULL, TRUE)
             ELSE IF type = "STRING"
             THEN LET S1 == freeVal(S, current)
                  IN  Out([S1 EXCEPT !.nval[current] = v,
                                     !.vlive = @ + 1], NULL, FALSE)
             ELSE Out([S EXCEPT !.nval[current] = Stored(type, v)],
                      NULL, FALSE)

(* The splice without the update of _tail.                                 *)
unlink_keepsTail(S, current) ==
    [S EXCEPT !.nxt[current] = S.nxt[S.nxt[current]]]

(* Splices out the successor of current (delete and pick share the code).  *)
unlink(S, current) ==
    LET temp == S.nxt[current]
    IN  [S EXCEPT !.nxt[current] = S.nxt[temp],
                  !.tail = IF temp = S.tail THEN current ELSE @]

delete(S, index) ==
    IF index < 0
    THEN {Out(S, NULL, TRUE)}
    ELSE IF index = 0
    THEN IF S.head = NULL
         THEN {Out(Fault(S), NULL, FALSE)} \cup
              {Out([S EXCEPT !.head = g,
                             !.tail = IF g = NULL THEN NULL ELSE @,
                             !.length = @ - 1,
                             !.status = "ub"], NULL, FALSE) :
                 g \in Nodes \cup {NULL}}
         ELSE LET temp == S.head
                  S1 == [S EXCEPT !.head = S.nxt[temp]]
                  S2 == [S1 EXCEPT !.tail = IF S1.head = NULL THEN NULL ELSE @]
                  S3 == free(freeVal(S2, temp), temp)
              IN  {Out([S3 EXCEPT !.length = @ - 1], NULL, FALSE)}
    ELSE LET current == NodeAt(S.nxt, S.head, index - 1)
         IN  IF current = NULL \/ S.nxt[current] = NULL
             THEN {Out(S, NULL, TRUE)}
             ELSE LET temp == S.nxt[current]
                      S1 == unlink(S, current)
                      S2 == free(freeVal(S1, temp), temp)
                  IN  {Out([S2 EXCEPT !.length = @ - 1], NULL, FALSE)}

(* underInsert that links the node behind the node at index.               *)
underInsert_behindIndex(S, index, node) ==
    LET current == NodeAt(S.nxt, S.head, index)
    IN  IF current # NULL
        THEN [S EXCEPT !.nxt[current] = node, !.nxt[node] = S.nxt[current],
                       !.length = @ + 1]
        ELSE S

underInsert(S, index, node) ==
    IF index = 0
    THEN [S EXCEPT !.nxt[node] = S.head, !.head = node, !.length = @ + 1]
    ELSE LET current == NodeAt(S.nxt, S.head, index - 1)
         IN  IF current # NULL
             THEN LET temp == S.nxt[current]
                  IN  [S EXCEPT !.nxt[current] = node, !.nxt[node] = temp,
                                !.length = @ + 1]
             ELSE S

insert(S, index, v) ==
    IF index < 0 \/ index > S.length
    THEN {Out(S, NULL, TRUE)}
    ELSE IF newNodeExits(v)
    THEN {Out(Exit(S), NULL, TRUE)}
    ELSE {Out(underInsert(newNode(S, n, v), index, n), NULL, FALSE) :
            n \in FreeNodes(S)}

(* pick without the negative-index test, delegating index <= 0 to pop.     *)
pick_negativeAsHead(S, index) ==
    IF index <= 0
    THEN pop(S)
    ELSE LET current == NodeAt(S.nxt, S.head, index - 1)
         IN  IF current # NULL /\ S.nxt[current] # NULL
             THEN LET temp == S.nxt[current]
                      n == Content(S, temp)
                      S1 == unlink(S, current)
                      S2 == free(giveVal(S1, temp), temp)
                  IN  Out([S2 EXCEPT !.length = @ - 1], n, FALSE)
             ELSE Out(S, NULL, TRUE)

pick(S, index) ==
    IF index < 0
    THEN Out(S, NULL, TRUE)
    ELSE IF index = 0
    THEN pop(S)
    ELSE LET current == NodeAt(S.nxt, S.head, index - 1)
         IN  IF current # NULL /\ S.nxt[current] # NULL
             THEN LET temp == S.nxt[current]
                      n == Content(S, temp)
                      S1 == unlink(S, current)
                      S2 == free(giveVal(S1, temp), temp)
                  IN  Out([S2 EXCEPT !.length = @ - 1], n, FALSE)
             ELSE Out(S, NULL, TRUE)

RECURSIVE freeAll(_, _)
freeAll(S, ns) ==
    IF ns = << >> THEN S
    ELSE freeAll(free(freeVal(S, Head(ns)), Head(ns)), Tail(ns))

(* destroyList without the reset of _tail.                                 *)
destroyList_keepsTail(S) ==
    [freeAll(S, NodesOf(S)) EXCEPT !.head = NULL, !.length = 0]

destroyList(S) ==
    [freeAll(S, NodesOf(S)) EXCEPT !.head = NULL, !.tail = NULL, !.length = 0]

(* The arguments a caller passes: a value of the list's kind, and for a    *)
(* STRING list possibly a NULL char pointer.                               *)
Args == IF type = "STRING" THEN Values \cup {NULL} ELSE Values

Push(v) ==
    /\ status = "ok"
    /\ \E R \in push(Cur, v) :
         /\ Set(R.s)
         /\ op' = Call("push", 0, R.ret, R.err)
    /\ UNCHANGED rest

Pop ==
    /\ status = "ok"
    /\ LET R == pop(Cur)
       IN  /\ Set(R.s)
           /\ op' = Call("pop", 0, R.ret, R.err)
    /\ UNCHANGED rest

Get(index) ==
    /\ status = "ok"
    /\ LET R == get(Cur, index)
       IN  /\ Set(R.s)
           /\ op' = Call("get", index, R.ret, R.err)
    /\ UNCHANGED rest

SetAt(index, v) ==
    /\ status = "ok"
    /\ LET R == set(Cur, index, v)
       IN  /\ Set(R.s)
           /\ op' = Call("set", index, R.ret, R.err)
    /\ UNCHANGED rest

Remove(index) ==
    /\ status = "ok"
    /\ \E R \in delete(Cur, index) :
         /\ Set(R.s)
         /\ op' = Call("remove", index, R.ret, R.err)
    /\ UNCHANGED rest

Insert(index, v) ==
    /\ status = "ok"
    /\ \E R \in insert(Cur, index, v) :
         /\ Set(R.s)
         /\ op' = Call("insert", index, R.ret, R.err)
    /\ UNCHANGED rest

Pick(index) ==
    /\ status = "ok"
    /\ LET R == pick(Cur, index)
       IN  /\ Set(R.s)
           /\ op' = Call("pick", index, R.ret, R.err)
    /\ UNCHANGED rest

Teardown ==
    /\ status = "ok"
    /\ Set(destroyList(Cur))
    /\ op' = Call("free", 0, NULL, FALSE)
    /\ UNCHANGED rest

Next ==
    \/ \E v \in Args : Push(v)
    \/ Pop
    \/ \E i \in Indexes : Get(i)
    \/ \E i \in Indexes, v \in Values : SetAt(i, v)
    \/ \E i \in Indexes : Remove(i)
    \/ \E i \in Indexes, v \in Args : Insert(i, v)
    \/ \E i \in Indexes : Pick(i)
    \/ Teardown

Spec == Init /\ [][Next]_vars

(***************************************************************************)
(* The iterator (src/src/Titerator.c).                                     *)
(***************************************************************************)

(* The addresses of the list object and of the iterator object: what the   *)
(* caller passes where it does not pass NULL.                              *)
ListRef == 1
ItRef == 1
Refs == {NULL, ListRef}

newIterator(S, list) ==
    IF list = NULL
    THEN [s |-> Exit(S), i |-> NoIter]
    ELSE [s |-> S, i |-> [ref |-> ItRef, current |-> S.head, index |-> 0]]

next(S, iterator) ==
    IF iterator.ref = NULL \/ iterator.current = NULL
    THEN [s |-> S, i |-> iterator, ret |-> NULL, err |-> TRUE]
    ELSE [s |-> S,
          i |-> [iterator EXCEPT !.index = @ + 1,
                                 !.current = S.nxt[iterator.current]],
          ret |-> Content(S, iterator.current), err |-> FALSE]

hasNext(iterator) ==
    IF iterator.ref = NULL THEN FALSE ELSE iterator.current # NULL

(* freeIterator that also tears down the list it iterates.                 *)
freeIterator_destroysList(S, iterator) ==
    [s |-> destroyList(S), i |-> NoIter]

(* free(iterator); the caller's pointer is not used again.                 *)
freeIterator(S, iterator) ==
    [s |-> S, i |-> NoIter]

(* hasNext's bool as the caller reads it.                                  *)
Bool(b) == IF b THEN 1 ELSE 0

NewIterator(list) ==
    /\ status = "ok"
    /\ it.ref = NULL
    /\ LET R == newIterator(Cur, list)
       IN  /\ Set(R.s)
           /\ it' = R.i
           /\ op' = Call("newIterator", 0, R.i.ref, list = NULL)
    /\ UNCHANGED <<type, dup, run>>

HasNext ==
    /\ status = "ok"
    /\ op' = Call("hasNext", 0, Bool(hasNext(it)), FALSE)
    /\ UNCHANGED <<mem, status, rest>>

NextIt ==
    /\ status = "ok"
    /\ LET R == next(Cur, it)
       IN  /\ Set(R.s)
           /\ it' = R.i
           /\ op' = Call("next", 0, R.ret, R.err)
    /\ UNCHANGED <<type, dup, run>>

FreeIterator ==
    /\ status = "ok"
    /\ it.ref # NULL
    /\ LET R == freeIterator(Cur, it)
       IN  /\ Set(R.s)
           /\ it' = R.i
    /\ op' = Call("freeIterator", 0, NULL, FALSE)
    /\ UNCHANGED <<type, dup, run>>

(* A caller that iterates: while it holds an iterator it does not call the *)
(* list's mutators.                                                        *)
NextIter ==
    \/ it.ref = NULL /\ Next
    \/ \E list \in Refs : NewIterator(list)
    \/ HasNext
    \/ NextIt
    \/ FreeIterator

SpecIter == Init /\ [][NextIter]_vars

(***************************************************************************)
(* The accessors called with a list pointer that may be NULL.              *)
(***************************************************************************)

(* len(this): the NULL test prints the error and falls through to the read *)
(* of this->_length.  Reading through NULL is undefined: the process       *)
(* faults, or the call returns whatever the read produced.                 *)
lenOf(S, this) ==
    IF this = NULL
    THEN {Out(Fault(S), NULL, TRUE)}
           \cup {Out([S EXCEPT !.status = "ub"], r, TRUE) : r \in 0..MaxNodes}
    ELSE {Out(S, S.length, FALSE)}

(* get(this, index): the NULL test returns before anything is read.        *)
getOf(S, this, index) ==
    IF this = NULL THEN Out(S, NULL, TRUE) ELSE get(S, index)

LenCall(this) ==
    /\ status = "ok"
    /\ \E R \in lenOf(Cur, this) :
         /\ Set(R.s)
         /\ op' = Call("len", 0, R.ret, R.err)
    /\ UNCHANGED rest

GetCall(this, index) ==
    /\ status = "ok"
    /\ LET R == getOf(Cur, this, index)
       IN  /\ Set(R.s)
           /\ op' = Call("get", index, R.ret, R.err)
    /\ UNCHANGED rest

(* A caller that may hold a NULL list pointer.                             *)
NextCalls ==
    \/ Next
    \/ \E this \in Refs : LenCall(this)
    \/ \E this \in Refs, i \in Indexes : GetCall(this, i)

SpecCalls == Init /\ [][NextCalls]_vars

(***************************************************************************)
(* A caller that uses the list as a queue: once len() is 0 it pushes some  *)
(* values, then pops one more time than it pushed.  run records what it    *)
(* passed to push and what pop returned.                                   *)
(***************************************************************************)

RunPush(v) ==
    /\ status = "ok"
    /\ \/ run.phase = "idle" /\ len = 0
       \/ run.phase = "push"
    /\ \E R \in push(Cur, v) :
         /\ Set(R.s)
         /\ op' = Call("push", 0, R.ret, R.err)
    /\ run' = [run EXCEPT !.phase = "push", !.pushed = Append(@, v)]
    /\ UNCHANGED <<type, it, dup>>

RunPop ==
    /\ status = "ok"
    /\ run.phase \in {"push", "pop"}
    /\ Len(run.popped) <= Len(run.pushed)
    /\ LET R == pop(Cur)
       IN  /\ Set(R.s)
           /\ op' = Call("pop", 0, R.ret, R.err)
           /\ run' = [run EXCEPT !.phase = "pop", !.popped = Append(@, R.ret)]
    /\ UNCHANGED <<type, it, dup>>

NextFifo ==
    \/ run.phase = "idle" /\ Next
    \/ \E v \in Args : RunPush(v)
    \/ RunPop

SpecFifo == Init /\ [][NextFifo]_vars

(***************************************************************************)
(* duplicate, and a caller that goes on using both lists.  The second list *)
(* lives in the same heap; dup holds its _head, _tail and _length.         *)
(***************************************************************************)

(* The address of the list object duplicate's newList() returns.           *)
DupRef == 2

(* The heap of S seen through the list object L.                           *)
View(S, L) ==
    [S EXCEPT !.head = L.head, !.tail = L.tail, !.length = L.length]

(* The list object at ref as S has it.                                     *)
Fields(S, ref) ==
    [ref |-> ref, head |-> S.head, tail |-> S.tail, length |-> S.length]

(* duplicate's loop: while hasNext(iterator), next(iterator) yields the    *)
(* value and steps to the successor, then push(list, value) allocates a    *)
(* node for the new list L.  S is the heap with the source's fields.       *)
RECURSIVE dupLoop(_, _, _)
dupLoop(S, L, iterator) ==
    IF ~hasNext(iterator) \/ S.status # "ok"
    THEN {[s |-> S, l |-> L]}
    ELSE LET N == next(S, iterator)
         IN  UNION {dupLoop(View(R.s, S), Fields(R.s, L.ref), N.i) :
                      R \in push(View(S, L), N.ret)}

duplicate(S, this) ==
    IF this = NULL
    THEN {[s |-> S, l |-> NoList, err |-> TRUE]}
    ELSE {[s |-> R.s, l |-> R.l, err |-> FALSE] :
            R \in dupLoop(S, [NoList EXCEPT !.ref = DupRef],
                          newIterator(S, this).i)}

Duplicate(this) ==
    /\ status = "ok"
    /\ dup.ref = NULL
    /\ \E R \in duplicate(Cur, this) :
         /\ Set(R.s)
         /\ dup' = R.l
         /\ op' = Call("duplicate", 0, R.l.ref, R.err)
    /\ UNCHANGED <<type, it, run>>

(* The second list as the operations see it, and the effect of an          *)
(* operation's outcome R on it.                                            *)
Copy == View(Cur, dup)

OnCopy(R, name) ==
    /\ Set(View(R.s, Cur))
    /\ dup' = Fields(R.s, dup.ref)
    /\ op' = Call(name, 0, R.ret, R.err)
    /\ UNCHANGED <<type, it, run>>

CopyPush(v) ==
    /\ status = "ok" /\ dup.ref # NULL
    /\ \E R \in push(Copy, v) : OnCopy(R, "push")

CopyPop ==
    /\ status = "ok" /\ dup.ref # NULL
    /\ OnCopy(pop(Copy), "pop")

CopyGet(index) ==
    /\ status = "ok" /\ dup.ref # NULL
    /\ OnCopy(get(Copy, index), "get")

CopySetAt(index, v) ==
    /\ status = "ok" /\ dup.ref # NULL
    /\ OnCopy(set(Copy, index, v), "set")

CopyRemove(index) ==
    /\ status = "ok" /\ dup.ref # NULL
    /\ \E R \in delete(Copy, index) : OnCopy(R, "remove")

CopyInsert(index, v) ==
    /\ status = "ok" /\ dup.ref # NULL
    /\ \E R \in insert(Copy, index, v) : OnCopy(R, "insert")

CopyPick(index) ==
    /\ status = "ok" /\ dup.ref # NULL
    /\ OnCopy(pick(Copy, index), "pick")

CopyTeardown ==
    /\ status = "ok" /\ dup.ref # NULL
    /\ OnCopy(Out(destroyList(Copy), NULL, FALSE), "free")

OnTheCopy ==
    \/ \E v \in Args : CopyPush(v)
    \/ CopyPop
    \/ \E i \in Indexes : CopyGet(i)
    \/ \E i \in Indexes, v \in Values : CopySetAt(i, v)
    \/ \E i \in Indexes : CopyRemove(i)
    \/ \E i \in Indexes, v \in Args : CopyInsert(i, v)
    \/ \E i \in Indexes : CopyPick(i)
    \/ CopyTeardown

(* A caller that builds a list, duplicates it, and then calls one more     *)
(* operation on either of the two lists.                                   *)
JustCopied == dup.ref # NULL /\ op.name = "duplicate"

NextDup ==
    \/ dup.ref = NULL /\ Next
    \/ \E this \in Refs : Duplicate(this)
    \/ JustCopied /\ Next
    \/ JustCopied /\ OnTheCopy

SpecDup == Init /\ [][NextDup]_vars

(***************************************************************************)
(* A caller that runs the scenario on a new list: three pushes, pick(1),   *)
(* insert(1, v), pop.  run records the values it passed (the three pushed, *)
(* then the one inserted) and what pick and pop returned.                  *)
(***************************************************************************)

ScenarioValues == {10, 20, 30, 99}

ScenarioPush(v) ==
    /\ status = "ok"
    /\ \/ run.phase = "idle" /\ op.name = "newList"
       \/ run.phase = "push" /\ Len(run.pushed) < 3
    /\ \E R \in push(Cur, v) :
         /\ Set(R.s)
         /\ op' = Call("push", 0, R.ret, R.err)
    /\ run' = [run EXCEPT !.phase = "push", !.pushed = Append(@, v)]
    /\ UNCHANGED <<type, it, dup>>

ScenarioPick ==
    /\ status = "ok"
    /\ run.phase = "push" /\ Len(run.pushed) = 3
    /\ LET R == pick(Cur, 1)
       IN  /\ Set(R.s)
           /\ op' = Call("pick", 1, R.ret, R.err)
           /\ run' = [run EXCEPT !.phase = "pick", !.popped = Append(@, R.ret)]
    /\ UNCHANGED <<type, it, dup>>

ScenarioInsert(v) ==
    /\ status = "ok"
    /\ run.phase = "pick"
    /\ \E R \in insert(Cur, 1, v) :
         /\ Set(R.s)
         /\ op' = Call("insert", 1, R.ret, R.err)
    /\ run' = [run EXCEPT !.phase = "insert", !.pushed = Append(@, v)]
    /\ UNCHANGED <<type, it, dup>>

ScenarioPop ==
    /\ status = "ok"
    /\ run.phase = "insert"
    /\ LET R == pop(Cur)
       IN  /\ Set(R.s)
           /\ op' = Call("pop", 0, R.ret, R.err)
           /\ run' = [run EXCEPT !.phase = "done", !.popped = Append(@, R.ret)]
    /\ UNCHANGED <<type, it, dup>>

NextScenario ==
    \/ \E v \in ScenarioValues : ScenarioPush(v)
    \/ ScenarioPick
    \/ \E v \in ScenarioValues : ScenarioInsert(v)
    \/ ScenarioPop

SpecScenario == Init /\ [][NextScenario]_vars

(***************************************************************************)
(* A caller that, after any use of the list, takes out its last element    *)
(* with remove(len() - 1) or pick(len() - 1) and then pushes.              *)
(***************************************************************************)
TrimRemove ==
    /\ status = "ok"
    /\ run.phase = "idle"
    /\ \E R \in delete(Cur, len - 1) :
         /\ Set(R.s)
         /\ op' = Call("remove", len - 1, R.ret, R.err)
    /\ run' = [run EXCEPT !.phase = "remove"]
    /\ UNCHANGED <<type, it, dup>>

TrimPick ==
    /\ status = "ok"
    /\ run.phase = "idle"
    /\ LET R == pick(Cur, len - 1)
       IN  /\ Set(R.s)
           /\ op' = Call("pick", len - 1, R.ret, R.err)
           /\ run' = [run EXCEPT !.phase = "pick", !.popped = Append(@, R.ret)]
    /\ UNCHANGED <<type, it, dup>>

TrimPush(v) ==
    /\ status = "ok"
    /\ run.phase \in {"remove", "pick"}
    /\ \E R \in push(Cur, v) :
         /\ Set(R.s)
         /\ op' = Call("push", 0, R.ret, R.err)
    /\ run' = [run EXCEPT !.phase = "done", !.pushed = Append(@, v)]
    /\ UNCHANGED <<type, it, dup>>

NextTrim ==
    \/ run.phase = "idle" /\ Next
    \/ TrimRemove
    \/ TrimPick
    \/ \E v \in Args : TrimPush(v)

SpecTrim == Init /\ [][NextTrim]_vars

(* Sanity of the model: while no undefined behaviour has run, the nodes    *)
(* reachable from the head are live, distinct, and hold live values, and   *)
(* the length counter never falls below their number.                      *)
ChainLive ==
    status = "ok" =>
      /\ Len(NodesOf(Cur)) <= MaxNodes
      /\ \A n \in Range(NodesOf(Cur)) :
           /\ live[n]
           /\ nval[n] # NULL
      /\ \A i, j \in 1..Len(NodesOf(Cur)) :
           NodesOf(Cur)[i] = NodesOf(Cur)[j] => i = j
      /\ length >= Len(NodesOf(Cur))
      /\ Owning => vlive = Cardinality({n \in Nodes : live[n]})

TypeOK ==
    /\ type \in Type
    /\ head \in Nodes \cup {NULL}
    /\ tail \in Nodes \cup {NULL}
    /\ length \in (0 - 1)..MaxNodes
    /\ status \in {"ok", "fault", "ub", "exit"}
    /\ it.ref \in {NULL, ItRef}
    /\ it.current \in Nodes \cup {NULL}
    /\ it.index \in 0..MaxNodes
    /\ dup.ref \in {NULL, DupRef}
    /\ dup.head \in Nodes \cup {NULL}
    /\ dup.tail \in Nodes \cup {NULL}
    /\ dup.length \in (0 - 1)..MaxNodes
    /\ run.phase \in {"idle", "push", "pop", "pick", "insert", "remove", "done"}
    /\ Len(run.pushed) <= MaxNodes + 1
    /\ Len(run.popped) <= MaxNodes + 1

(***************************************************************************)
(* The properties.                                                         *)
(***************************************************************************)

Empty == head = NULL /\ tail = NULL
OutOfRange(i) == i < 0 \/ i >= len

(* C1: in every reachable state length is the number of nodes reachable    *)
(* from head, tail is reachable from head with an empty next link, a       *)
(* zero-length list has head and tail empty and a longer one has both set. *)
C1_ListInvariant ==
    status = "ok" =>
      /\ length = Len(NodesOf(Cur))
      /\ tail # NULL => (tail \in Range(NodesOf(Cur)) /\ nxt[tail] = NULL)
      /\ length = 0 => Empty
      /\ length > 0 => (head # NULL /\ tail # NULL)

(* C2: from every reachable state push(v) completes and appends: the       *)
(* elements become the old ones followed by v (as the kind stores it) and  *)
(* len() grows by exactly 1.                                               *)
C2_PushAppends ==
    [][\A v \in Values :
         Push(v) => /\ status' = "ok"
                    /\ Elems' = Append(Elems, Stored(type, v))
                    /\ len' = len + 1]_vars

(* C3: in every reachable state insert(len, v) and push(v), given the same *)
(* new node, leave the list in the same state.                             *)
C3_InsertAtLenIsPush ==
    status = "ok" =>
      \A v \in Values : \A n \in FreeNodes(Cur) :
        underPush(newNode(Cur, n, v), n)
          = {underInsert(newNode(Cur, n, v), len, n)}

(* C4: remove(index) with index < 0 or index >= len, remove(0) on an empty *)
(* list included, reports an error and changes nothing, without a fault.   *)
C4_RemoveOutOfRange ==
    [][\A i \in Indexes :
         (Remove(i) /\ OutOfRange(i))
           => (status' = "ok" /\ op'.err /\ UNCHANGED mem)]_vars

(* C5: on a non-empty list get, set and pick with index < 0 or index >=    *)
(* len return nothing and leave head, tail, length, the links and every    *)
(* stored value as they were.                                              *)
C5_RejectedIndexNoChange ==
    [][\A i \in Indexes :
         (len > 0 /\ OutOfRange(i)
            /\ \/ op'.name = "get" /\ Get(i)
               \/ op'.name = "pick" /\ Pick(i)
               \/ op'.name = "set" /\ \E v \in Values : SetAt(i, v))
           => (op'.ret = NULL /\ status' = "ok" /\ UNCHANGED mem)]_vars

C5_Witness ==
    /\ status = "ok"
    /\ op.name \in {"get", "set", "pick"}
    /\ op.err
    /\ len > 0
    /\ head # NULL

(* C6: insert(index, v) is rejected exactly when index < 0 or index > len; *)
(* a rejected insert changes nothing and an accepted one grows len by 1.   *)
C6_InsertRange ==
    [][\A i \in Indexes : \A v \in Values :
         Insert(i, v)
           => IF i < 0 \/ i > len
              THEN op'.err /\ UNCHANGED mem
              ELSE ~op'.err /\ status' = "ok" /\ len' = len + 1]_vars

(* C7 as stated: on a zero-length list pop() and pick(index), for every    *)
(* index, return nothing without an error and the list stays empty.        *)
C7_EmptyPopPickNoError ==
    [][(len = 0 /\ (Pop \/ \E i \in Indexes : Pick(i)))
         => (op'.ret = NULL /\ ~op'.err /\ len' = 0 /\ Empty')]_vars

(* C7 amended: on a zero-length list pop() and pick(0) return nothing      *)
(* without an error, pick(index) with index # 0 returns nothing and        *)
(* reports an index error, and in each case the list stays empty.          *)
C7_EmptyPopPick ==
    [][/\ (len = 0 /\ (Pop \/ Pick(0)))
            => (op'.ret = NULL /\ ~op'.err /\ len' = 0 /\ Empty')
       /\ \A i \in Indexes \ {0} :
            (len = 0 /\ Pick(i))
              => (op'.ret = NULL /\ op'.err /\ len' = 0 /\ Empty')]_vars

C7_Witness ==
    /\ status = "ok"
    /\ op.name = "pick"
    /\ op.ret = NULL
    /\ ~op.err
    /\ len = 0

(* C8: after teardown of a list of an owning kind no node and no value     *)
(* storage that the list allocated is still allocated.                     *)
C8_TeardownReleasesAll ==
    (status = "ok" /\ op.name = "free" /\ Owning)
      => (vlive = 0 /\ \A n \in Nodes : ~live[n])

(* C9: remove(i) with 0 <= i < len drops len by 1, keeps the elements      *)
(* before i, moves those after i one position down, and leaves head and    *)
(* tail empty when it took the last remaining element.                     *)
C9_RemoveAtIndex ==
    [][\A i \in Indexes :
         (Remove(i) /\ 0 <= i /\ i < len)
           => /\ status' = "ok"
              /\ len' = len - 1
              /\ Len(Elems) > i
              /\ Len(Elems') = Len(Elems) - 1
              /\ \A j \in 1..Len(Elems') :
                   Elems'[j] = IF j <= i THEN Elems[j] ELSE Elems[j + 1]
              /\ len = 1 => Empty']_vars

(* C10: insert(i, v) with 0 <= i <= len grows len by 1, puts v (as the     *)
(* kind stores it) at position i, keeps the elements before i and moves    *)
(* those from i on one position up.                                        *)
C10_InsertAtIndex ==
    [][\A i \in Indexes : \A v \in Values :
         (Insert(i, v) /\ 0 <= i /\ i <= len)
           => /\ status' = "ok"
              /\ len' = len + 1
              /\ Len(Elems') = Len(Elems) + 1
              /\ i < Len(Elems')
              /\ get(Cur, i)'.ret = Stored(type, v)
              /\ \A j \in 1..Len(Elems) :
                   Elems[j] = IF j <= i THEN Elems'[j] ELSE Elems'[j + 1]]_vars

(* C11 as stated: in every reachable state and for every index, pick(i)    *)
(* returns what get(i) returns and leaves the list (head, tail, length,    *)
(* links) as remove(i) does.                                               *)
ListPart(S) == <<S.head, S.tail, S.length, S.nxt, S.live, S.status>>

C11_PickIsGetThenRemove ==
    status = "ok" =>
      \A i \in Indexes :
        /\ pick(Cur, i).ret = get(Cur, i).ret
        /\ {ListPart(R.s) : R \in delete(Cur, i)} = {ListPart(pick(Cur, i).s)}

(* C12 as stated: set(i, v) with 0 <= i < len() overwrites in place:       *)
(* afterwards get(i) is v, while length, head, tail, the links and every   *)
(* element at another position are unchanged.                              *)
C12_SetInPlace ==
    [][\A i \in Indexes, v \in Values :
         (0 <= i /\ i < len /\ SetAt(i, v))
            => /\ status' = "ok"
               /\ ~op'.err
               /\ get(Cur', i).ret = Stored(type, v)
               /\ UNCHANGED <<length, head, tail, nxt, live>>
               /\ \A j \in 0..(len - 1) :
                    j # i => get(Cur', j).ret = get(Cur, j).ret]_vars

(* C17: teardown on any reachable list leaves length 0 and head and tail   *)
(* empty; a following push behaves as on a new list (the pushed node is    *)
(* both head and tail, holds the value, len() is 1); a second teardown     *)
(* releases nothing and changes nothing.                                   *)
PushedOnNew(S, v) ==
    \/ S.status = "exit" /\ newNodeExits(v)
    \/ /\ S.status = "ok"
       /\ S.head # NULL /\ S.tail = S.head /\ S.length = 1
       /\ S.nxt[S.head] = NULL
       /\ Content(S, S.head) = Stored(type, v)

C17_TeardownResets ==
    [][Teardown
         => /\ status' = "ok" /\ length' = 0 /\ head' = NULL /\ tail' = NULL
            /\ destroyList(Cur') = Cur'
            /\ \A v \in Args : \A R \in push(Cur', v) : PushedOnNew(R.s, v)]_vars

(* teardown has run on a list that had lost nodes, and a cell is free for  *)
(* the following push.                                                     *)
C17_Witness ==
    /\ op.name = "free" /\ status = "ok"
    /\ \E n \in Nodes : live[n]
    /\ FreeNodes(Cur) # {}

(* C14 as stated: an iterator created on a list whose len() is n and       *)
(* stepped without mutation yields exactly n values, the k-th equal to     *)
(* get(k-1); hasNext() is true before each of the n calls of next() and    *)
(* false after them, and next() then reports exhaustion and returns NULL.  *)
(* (_index counts the values next() has yielded.)                          *)
C14_IteratorYieldsLen ==
    (status = "ok" /\ it.ref # NULL) =>
      /\ it.index <= len
      /\ hasNext(it) <=> it.index < len
      /\ it.index < len =>
           /\ ~next(Cur, it).err
           /\ next(Cur, it).ret = get(Cur, it.index).ret
      /\ it.index = len =>
           /\ next(Cur, it).err
           /\ next(Cur, it).ret = NULL

(* C20: creating an iterator on the list, calling hasNext and next on it   *)
(* and destroying it leave head, tail, length, the links and the element   *)
(* values as they were, and the list stays usable (no fault, no exit).     *)
C20_IteratorLeavesList ==
    [][(NewIterator(ListRef) \/ HasNext \/ NextIt \/ FreeIterator)
          => /\ UNCHANGED <<mem, status, type>>
             /\ ElemsOf(Cur') = Elems]_vars

(* An iterator over a list of at least two elements has yielded them all   *)
(* and reported exhaustion; the elements are still in the list.            *)
C20_Witness ==
    /\ op.name = "next" /\ op.err
    /\ status = "ok"
    /\ it.ref # NULL /\ it.index >= 2
    /\ Len(Elems) = it.index

(* C19 as stated: get or len called with a NULL list reports the error,    *)
(* returns without faulting, and changes no list.                          *)
C19_NullListAccessor ==
    [][((\E i \in Indexes : GetCall(NULL, i)) \/ LenCall(NULL))
          => /\ op'.err
             /\ status' = "ok"
             /\ UNCHANGED mem]_vars

(* C13: starting from a list whose len() is 0, n pushes followed by n pops *)
(* return the pushed values in insertion order; the list is then empty     *)
(* (len() is 0, head and tail NULL) and a further pop returns NULL.        *)
C13_Fifo ==
    (status = "ok" /\ run.phase = "pop") =>
      /\ \A k \in 1..Len(run.popped) :
           IF k <= Len(run.pushed)
           THEN run.popped[k] = Stored(type, run.pushed[k])
           ELSE run.popped[k] = NULL /\ ~op.err
      /\ Len(run.popped) >= Len(run.pushed) => (len = 0 /\ Empty)

(* Two different values were pushed, both were popped, and one more pop    *)
(* has run.                                                                *)
C13_Witness ==
    /\ status = "ok"
    /\ Len(run.pushed) >= 2
    /\ run.pushed[1] # run.pushed[2]
    /\ Len(run.popped) = Len(run.pushed) + 1

(* C15 as stated: duplicate(list) on a non-null list returns a new list of *)
(* the same kind whose len() and elements in order equal the source's and  *)
(* which satisfies the list invariant, and leaves the source's head, tail, *)
(* length and elements unchanged; duplicate(NULL) returns NULL.            *)
WellFormed(S) ==
    /\ S.length = Len(NodesOf(S))
    /\ \A n \in Range(NodesOf(S)) : S.live[n]
    /\ IF S.length = 0
       THEN S.head = NULL /\ S.tail = NULL
       ELSE /\ S.head # NULL
            /\ S.tail = NodesOf(S)[Len(NodesOf(S))]
            /\ S.nxt[S.tail] = NULL

C15_DuplicateCopies ==
    [][/\ Duplicate(ListRef)
          => /\ status' = "ok"
             /\ dup'.ref # NULL
             /\ dup'.length = len
             /\ ElemsOf(Copy') = Elems
             /\ WellFormed(Copy')
             /\ UNCHANGED <<type, head, tail, length>>
             /\ ElemsOf(Cur') = Elems
       /\ Duplicate(NULL)
          => /\ op'.ret = NULL
             /\ dup'.ref = NULL
             /\ UNCHANGED <<mem, status>>]_vars

(* C16 as stated: after duplicate on a list of an owning kind the two      *)
(* lists share no node, and an operation on one of them never changes what *)
(* get returns at any position of the other; after duplicate on an Opaque  *)
(* list the copy holds, position by position, the source's references.     *)
C16_CopyIndependent ==
    [][/\ (Owning /\ Duplicate(ListRef))
          => Range(NodesOf(Cur')) \cap Range(NodesOf(Copy')) = {}
       /\ (Owning /\ JustCopied /\ Next /\ status' = "ok")
          => ElemsOf(Copy') = ElemsOf(Copy)
       /\ (Owning /\ JustCopied /\ OnTheCopy /\ status' = "ok")
          => ElemsOf(Cur') = Elems
       /\ (~Owning /\ Duplicate(ListRef))
          => ElemsOf(Copy') = Elems]_vars

(* C18: on an Opaque list no operation allocates a copy of, or releases,   *)
(* what a stored reference points to (vlive stays 0); set replaces the     *)
(* reference in one node and nothing else; push and insert store exactly   *)
(* the reference passed and leave the stored ones alone; get, pop and pick *)
(* return the reference held in the node; remove and teardown only drop    *)
(* it; duplicate stores the source's references in the copy.  Stated for   *)
(* every operation that can be called in a reachable state, on the list    *)
(* and on its copy.                                                        *)
Added(S, R, v) ==
    \E n \in Nodes :
      /\ ~S.live[n] /\ R.live[n] /\ R.nval[n] = v
      /\ \A m \in Nodes \ {n} : R.nval[m] = S.nval[m]

Kept(S, R) ==
    \A n \in Nodes : R.live[n] => (S.live[n] /\ R.nval[n] = S.nval[n])

OpaqueOps(S) ==
    /\ S.vlive = 0
    /\ \A v \in Values : \A R \in push(S, v) :
         R.s.vlive = 0 /\ (R.s.status = "ok" => Added(S, R.s, v))
    /\ \A i \in Indexes, v \in Values : \A R \in insert(S, i, v) :
         /\ R.s.vlive = 0
         /\ IF R.err THEN R.s = S ELSE R.s.status = "ok" => Added(S, R.s, v)
    /\ \A i \in Indexes, v \in Values :
         LET R == set(S, i, v)
         IN  IF R.err THEN R.s = S
             ELSE R.s = [S EXCEPT !.nval[NodeAt(S.nxt, S.head, i)] = v]
    /\ \A i \in Indexes :
         LET R == get(S, i)
         IN  /\ R.s = S
             /\ ~R.err => R.ret = S.nval[NodeAt(S.nxt, S.head, i)]
    /\ LET R == pop(S)
       IN  /\ R.s.vlive = 0 /\ Kept(S, R.s)
           /\ S.head # NULL => R.ret = S.nval[S.head]
    /\ \A i \in Indexes :
         LET R == pick(S, i)
         IN  /\ R.s.vlive = 0 /\ Kept(S, R.s)
             /\ R.ret # NULL => R.ret = S.nval[NodeAt(S.nxt, S.head, i)]
    /\ \A i \in Indexes : \A R \in delete(S, i) :
         R.s.vlive = 0 /\ (R.s.status = "ok" => Kept(S, R.s))
    /\ destroyList(S).vlive = 0 /\ Kept(S, destroyList(S))
    /\ \A R \in duplicate(S, ListRef) :
         /\ R.s.vlive = 0
         /\ ElemsOf(View(R.s, R.l)) = ElemsOf(S)
         /\ \A n \in Nodes : S.live[n] => R.s.nval[n] = S.nval[n]

C18_OpaqueNotOwned ==
    (type = "T" /\ status = "ok") =>
      /\ OpaqueOps(Cur)
      /\ dup.ref # NULL => OpaqueOps(Copy)

(* An Opaque list and its copy hold the same reference, and the source's   *)
(* node has been released since (by remove, pop, pick or teardown).        *)
C18_Witness ==
    /\ type = "T" /\ status = "ok"
    /\ dup.ref # NULL /\ Len(ElemsOf(Copy)) >= 1
    /\ op.name \in {"remove", "pop", "pick", "free"}
    /\ head = NULL

(* C21: on a new list, after the pushes of a, b, c the list is [a, b, c];  *)
(* pick(1) returns b and leaves [a, c]; insert(1, d) gives [a, d, c];      *)
(* pop() returns a and leaves [d, c] with len() 2.  With an Int list and   *)
(* a, b, c, d = 10, 20, 30, 99 this is the scenario of the claim.          *)
At(k) == Stored(type, run.pushed[k])

C21_Scenario ==
    run.phase # "idle" =>
      /\ status = "ok"
      /\ (run.phase = "push" /\ Len(run.pushed) = 3)
            => (Elems = <<At(1), At(2), At(3)>> /\ len = 3)
      /\ run.phase = "pick"
            => (run.popped = <<At(2)>> /\ Elems = <<At(1), At(3)>> /\ len = 2)
      /\ run.phase = "insert"
            => (Elems = <<At(1), At(4), At(3)>> /\ len = 3)
      /\ run.phase = "done"
            => /\ run.popped = <<At(2), At(1)>>
               /\ Elems = <<At(4), At(3)>>
               /\ len = 2

(* The Int scenario has run to its end: 10, 20, 30 pushed, 20 picked, 99   *)
(* inserted, 10 popped, the list is [99, 30].                              *)
C21_Witness ==
    /\ type = "INT" /\ status = "ok"
    /\ run.phase = "done"
    /\ run.pushed = <<10, 20, 30, 99>>
    /\ run.popped = <<20, 10>>
    /\ Elems = <<99, 30>>
    /\ len = 2

(* C22: when remove(len-1) or pick(len-1) takes out the node _tail points  *)
(* to, in a list with len >= 2, the call succeeds, _tail becomes the       *)
(* removed node's predecessor and that node's next link is empty; the      *)
(* elements before the removed one stay, in order; a following push(v)     *)
(* links its node directly behind the predecessor and the list is the old  *)
(* one without its last element, followed by v.                            *)
TakesOutTail ==
    /\ status = "ok"
    /\ len >= 2
    /\ tail # NULL
    /\ NodeAt(nxt, head, len - 1) = tail
    /\ TrimRemove \/ TrimPick

C22_TailMovesBack ==
    [][TakesOutTail =>
         LET pred == NodeAt(nxt, head, len - 2)
         IN  /\ status' = "ok"
             /\ ~op'.err
             /\ ~live'[tail]
             /\ tail' = pred
             /\ nxt'[pred] = NULL
             /\ len' = len - 1
             /\ Elems' = SubSeq(Elems, 1, len - 1)
             /\ \A v \in Values : \A P \in push(Cur', v) :
                  /\ P.s.status = "ok"
                  /\ ~P.err
                  /\ P.s.nxt[pred] = P.s.tail
                  /\ P.s.tail \notin Range(NodesOf(Cur'))
                  /\ ElemsOf(P.s) = Append(Elems', Stored(type, v))
                  /\ P.s.length = len]_vars

(* The caller's remove(len() - 1) or pick(len() - 1) succeeded on a list   *)
(* of at least two elements, and the push that followed put its value      *)
(* last, in the node _tail now points to.                                  *)
C22_Witness ==
    /\ status = "ok"
    /\ run.phase = "done"
    /\ ~op.err
    /\ len >= 2
    /\ Len(Elems) = len
    /\ tail = NodeAt(nxt, head, len - 1)
    /\ Elems[len] = Stored(type, run.pushed[1])

(* What a halting call must leave alone: the list's head, tail, length,    *)
(* its nodes with their links and values, hence its elements.              *)
Halted ==
    /\ status' = "exit"
    /\ op'.err
    /\ UNCHANGED <<head, tail, length, live, nxt, nval, vlive>>
    /\ Elems' = Elems

(* C23 as stated: newIterator on a NULL list, and push or insert (at any   *)
(* index) of a NULL string into a STRING list, report the failure and halt *)
(* the program with the list's head, tail, length and elements as before   *)
(* the call.                                                               *)
C23_AsStated ==
    [][(\/ NewIterator(NULL)
        \/ type = "STRING" /\ Push(NULL)
        \/ type = "STRING" /\ \E i \in Indexes : Insert(i, NULL))
         => Halted]_vars

(* C23 amended: the same, with insert restricted to an index in            *)
(* 0..len(); insert tests the index before it creates the node, so with an *)
(* index out of that range it reports the index and returns, the list      *)
(* unchanged and the program running.                                      *)
C23_FatalBeforeMutation ==
    [][/\ (\/ NewIterator(NULL)
           \/ type = "STRING" /\ Push(NULL)
           \/ type = "STRING" /\ \E i \in 0..len : Insert(i, NULL))
            => Halted
       /\ (type = "STRING" /\ \E i \in Indexes \ (0..len) : Insert(i, NULL))
            => /\ status' = "ok"
               /\ op'.err
               /\ UNCHANGED mem]_vars

(* The program has halted in a call that reported a failure, with a list   *)
(* of at least one element in place.                                       *)
C23_Witness ==
    /\ status = "exit"
    /\ op.name \in {"newIterator", "push", "insert"}
    /\ op.err
    /\ len >= 1
    /\ Len(Elems) = len
    /\ tail = NodeAt(nxt, head, len - 1)

====
